---- MODULE Spec2Model ----
(***************************************************************************)
(* Model of pssetools' grid capacity analysis (CapacityAnalyser): the      *)
(* bisection search for the bus headroom, the two-stage feasibility check, *)
(* the construction of the contingency scenario, the temporary bus         *)
(* subsystems, the branch disabling scope and the load/machine cursors.    *)
(*                                                                         *)
(* Complex powers are pairs [re, im] of integers counted in units of       *)
(* 1/Scale MW, Scale = 2^(MaxIter-1), so that every midpoint the search    *)
(* can compute within MaxIter iterations is represented exactly.           *)
(***************************************************************************)
EXTENDS Integers, Sequences, FiniteSets, TLC

\* ------------------------------------------------------------------ bounds
\* Largest max_iterations drawn.
MaxIter == 4
\* Upper limits drawn are 1..MaxU whole MW.
MaxU == 2
\* Tolerances drawn are 1..MaxTol units of 1/Scale MW.
MaxTol == 5

RECURSIVE Pow2(_)
Pow2(n) == IF n <= 0 THEN 1 ELSE 2 * Pow2(n - 1)

Scale == Pow2(MaxIter - 1)

\* ------------------------------------------------------------ complex power
Cx(re, im) == [re |-> re, im |-> im]

Zero == Cx(0, 0)

CxAdd(a, b) == Cx(a.re + b.re, a.im + b.im)

\* Division of a complex power by two (exact on the model's grid).
CxHalf(a) == Cx(a.re \div 2, a.im \div 2)

\* ------------------------------------------------------- violations, factors
NO_VIOLATIONS == "NO_VIOLATIONS"

Violations == {NO_VIOLATIONS, "THERMAL", "VOLTAGE"}

None == "None"

LimitingFactor(v, ss) == [v |-> v, ss |-> ss]

\* Optional[LimitingFactor] = None
NoneLF == [v |-> None, ss |-> None]

\* The branches and transformers of the case, in collection order.
BranchIds == <<"b1", "b2">>

TrafoIds == <<"t1">>

Range(s) == {s[k] : k \in 1..Len(s)}

ContingencyScenario(branches, trafos) == [branches |-> branches, trafos |-> trafos]

ScenarioOrder(cs) == cs.branches \o cs.trafos

\* ------------------------------------------------- temporary bus subsystems
TEMP_LOAD_ID == "Tm"

Buses == 1..2

TempKey(ts) == <<ts.bus, TEMP_LOAD_ID>>

\* wf.load_data_6(bus, id): the element exists afterwards; a new one has zero power.
load_data_6(elems, key) ==
    IF key \in DOMAIN elems THEN elems ELSE elems @@ (key :> Zero)

\* wf.purgload(bus, id): the element no longer exists.
purgload(elems, key) == [k \in DOMAIN elems \ {key} |-> elems[k]]

\* wf.load_chng_6(bus, id, realar): overwrites the element's power.
load_chng_6(elems, key, mva) ==
    IF key \in DOMAIN elems THEN [elems EXCEPT ![key] = mva] ELSE elems

TemporaryBusSubsystem(kind, bus) == [kind |-> kind, bus |-> bus, active |-> FALSE]

NoSubsystem == [kind |-> None, bus |-> 0, active |-> FALSE]

\* __enter__: create the element, then mark the context manager active.
TempEnterNet(n, ts) == [n EXCEPT ![ts.kind] = load_data_6(@, TempKey(ts))]

TempEnter(ts) == [ts EXCEPT !.active = TRUE]

\* Faulty variant: __exit__ deletes the element of the next bus.
TempExitNetOtherBus(n, ts) ==
    [n EXCEPT ![ts.kind] = purgload(@, <<ts.bus + 1, TEMP_LOAD_ID>>)]

\* Faulty variant: __exit__ leaves the element in the working case.
TempExitNetKeepsElement(n, ts) == n

\* __exit__: delete the element, then mark the context manager inactive.
TempExitNet(n, ts) == [n EXCEPT ![ts.kind] = purgload(@, TempKey(ts))]

TempExit(ts) == [ts EXCEPT !.active = FALSE]

\* Faulty variant: __call__ does not look at the context manager's state.
TempCallNeverRaises(ts) == FALSE

\* __call__: RuntimeError unless active.
TempCallRaises(ts) == ~ts.active

TempCallNet(n, ts, mva) == [n EXCEPT ![ts.kind] = load_chng_6(@, TempKey(ts), mva)]

\* The power injected by the temporary element (what a power flow sees).
Injection(n, ts) ==
    IF TempKey(ts) \in DOMAIN n[ts.kind] THEN n[ts.kind][TempKey(ts)] ELSE Zero

NoElements == [k \in {} |-> Zero]

EmptyNet == [load |-> NoElements, machine |-> NoElements]

\* ------------------------------------------------------- feasibility check
\* get_contingency_limiting_factor: the first element of the scenario, in
\* scenario order, whose outage gives violations; NO_VIOLATIONS and no element
\* when there is none.  cv[e] is the violation check's outcome with e out.
RECURSIVE FirstFailing(_, _)
FirstFailing(order, cv) ==
    IF order = <<>> THEN LimitingFactor(NO_VIOLATIONS, None)
    ELSE IF cv[Head(order)] # NO_VIOLATIONS
         THEN LimitingFactor(cv[Head(order)], Head(order))
         ELSE FirstFailing(Tail(order), cv)

contingency_check(cs, cv) == FirstFailing(ScenarioOrder(cs), cv)

\* Faulty variant: the result of the contingency check is not looked at.
feasibility_check_intact_only(v0, cc) ==
    IF v0 # NO_VIOLATIONS
    THEN [is_feasible |-> FALSE, limiting_factor |-> LimitingFactor(v0, None),
          calls |-> <<"check_violations">>]
    ELSE [is_feasible |-> TRUE, limiting_factor |-> NoneLF,
          calls |-> <<"check_violations", "contingency_check">>]

\* feasibility_check: v0 is what check_violations() returns on the intact
\* network, cc what contingency_check() returns (when it is called).
\* calls lists the checks made, in order.
feasibility_check(v0, cc) ==
    IF v0 # NO_VIOLATIONS
    THEN [is_feasible |-> FALSE, limiting_factor |-> LimitingFactor(v0, None),
          calls |-> <<"check_violations">>]
    ELSE IF cc.v # NO_VIOLATIONS
         THEN [is_feasible |-> FALSE, limiting_factor |-> cc,
               calls |-> <<"check_violations", "contingency_check">>]
         ELSE [is_feasible |-> TRUE, limiting_factor |-> NoneLF,
               calls |-> <<"check_violations", "contingency_check">>]

\* ---------------------------------------------------------------- variables
VARIABLES
    max_iterations,        \* self._max_iterations
    solver_tolerance_p_mw, \* self._solver_tolerance_p_mw
    contingency_scenario,  \* self._contingency_scenario
    oracle,                \* the network's response: a threshold, or free
    net,                   \* the loads and machines of the working case
    temp_subsystem,        \* the TemporaryBusSubsystem in use
    pcB,                   \* position in max_power_available_mva
    U,                     \* the upper_limit_mva argument
    upper_limit_mva, lower_limit_mva, i, limiting_factor,
    result,                \* the returned (mva, limiting factor)
    probeLog,              \* history: the probes made, [mva, is_feasible]
    setLog,                \* history: the powers set on the subsystem
    lastInfeasibleLF,      \* history: limiting factor of the last infeasible probe
    lastCheck,             \* history: the last feasibility_check, in and out
    lastOp,                \* history: the last method called on the subsystem
    lastCall,              \* history: the last __call__, its state before and outcome
    netBefore,             \* history: the working case when the scope was entered
    branch_status,         \* STATUS of every branch and transformer of the working case
    disable_outcome,       \* what the model does when asked to take an element out
    solo_violations,       \* what check_violations() reports with one element out
    status0,               \* history: STATUS of every element in the base case
    pcS,                   \* position in get_contingency_scenario
    elem_idx,              \* the element being screened (branches, then trafos)
    is_disabled,           \* what the disabling scope yielded
    exc_pending,           \* an exception is leaving the disabling scope
    is_not_critical,       \* the value branch_is_not_critical is returning
    not_critical_branches, not_critical_trafos,
    scoped,                \* history: the elements whose disabling scope was entered
    checked,               \* history: the elements whose outage was checked
    loads,                 \* Loads(): the records self._loads_iterator runs over
    load_pos,              \* the place of self._load in loads
    loads_available,       \* self._loads_available
    machines,              \* Machines(): the records self._machines_iterator runs over
    machine_pos,           \* the place of self._machine in machines
    machines_available,    \* self._machines_available
    actual_load_mva,       \* what bus_actual_load_mva returned last
    actual_gen_mva,        \* what bus_actual_gen_mva returned last
    lastBus,               \* history: the bus number of the last call (0: none yet)
    increasing,            \* history: every call had a larger bus number than the one before
    nonDecreasing,         \* history: no call had a smaller bus number than the one before
    highestBus,            \* history: the largest bus number of the calls so far (0: none yet)
    case_net,              \* the loads and machines of the saved case
    base_violations,       \* what check_violations() reports on the base case
    fdns_converges,        \* whether the decoupled solver solves the base case
    supplied_scenario,     \* the contingency_scenario argument
    upper_load_limit_mva,  \* self._upper_load_limit_mva
    upper_gen_limit_mva,   \* self._upper_gen_limit_mva
    selected_buses_ids,    \* self._selected_buses_ids
    pc,                    \* position in buses_headroom (the module's function)
    use_full_newton_raphson, \* self._use_full_newton_raphson
    opened,                \* history: the number of wf.open_case calls
    bus_idx,               \* the place of the sweep in Buses()
    headrooms,             \* the BusHeadroom records produced so far
    load_available_mva, load_lf, gen_available_mva, gen_lf,
    previous,              \* history: the value the search before this one returned
    builds,                \* history: the number of get_contingency_scenario calls
    solver_log,            \* history: the calls made at startup, in order
    passed                 \* history: the use_full_newton_raphson values given to checks

varsCfg == <<max_iterations, solver_tolerance_p_mw, contingency_scenario, oracle>>

varsNet == <<net, temp_subsystem>>

varsBisect == <<pcB, U, upper_limit_mva, lower_limit_mva, i, limiting_factor,
                result, probeLog, setLog, lastInfeasibleLF, lastCheck>>

\* history of the use of a temporary subsystem
varsTemp == <<lastOp, lastCall, netBefore>>

\* the branches and transformers, as the working case answers for them
varsBranch == <<branch_status, disable_outcome, solo_violations, status0>>

varsScen == <<pcS, elem_idx, is_disabled, exc_pending, is_not_critical,
              not_critical_branches, not_critical_trafos, scoped, checked>>

varsCursor == <<loads, load_pos, loads_available, machines, machine_pos,
                machines_available, actual_load_mva, actual_gen_mva, lastBus,
                increasing, nonDecreasing, highestBus>>

\* the arguments of buses_headroom and the saved case
varsInput == <<case_net, base_violations, fdns_converges, supplied_scenario,
               upper_load_limit_mva, upper_gen_limit_mva, selected_buses_ids>>

varsRun == <<pc, use_full_newton_raphson, opened, bus_idx, headrooms,
             load_available_mva, load_lf, gen_available_mva, gen_lf>>

\* history of the calls made
varsHist == <<previous, builds, solver_log, passed>>

vars == <<varsCfg, varsNet, varsBisect, varsTemp, varsBranch, varsScen, varsCursor,
          varsInput, varsRun, varsHist>>

\* What max_power_available_mva leaves alone.
OutsideBisect == <<varsCfg, varsTemp, varsBranch, varsScen, varsCursor,
    varsInput, varsRun, previous, builds, solver_log>>

\* What the methods of a temporary subsystem leave alone.
OutsideTemp == <<varsCfg, varsBisect, varsBranch, varsScen, varsCursor,
    varsInput, varsRun, varsHist>>

\* What get_contingency_scenario leaves alone.
OutsideScen == <<varsCfg, varsNet, varsBisect, varsTemp, varsCursor,
    varsInput, varsRun, previous, builds, solver_log>>

\* What bus_actual_load_mva and bus_actual_gen_mva leave alone.
OutsideCursor == <<varsCfg, varsNet, varsBisect, varsTemp, varsBranch, varsScen,
    varsInput, varsRun, varsHist>>

\* ------------------------------------------------- the network's response
ThresholdOracle(t) == [kind |-> "threshold", T |-> t]

FreeOracle == [kind |-> "free", T |-> 0]

\* What the two checks report for the current network state: check_violations()
\* gives v0 and, with element e of the scenario out of service, cv[e].
Responses(cs) == [v0 : Violations, cv : [Range(ScenarioOrder(cs)) -> Violations]]

ResponseFeasible(cs, r) ==
    r.v0 = NO_VIOLATIONS /\ contingency_check(cs, r.cv).v = NO_VIOLATIONS

\* A threshold oracle is deterministic: no violation at all when the active
\* power injected is below T, and the same intact-network violation from T on.
\* A free oracle may answer anything.
Admissible(cs, r, inj) ==
    oracle.kind = "threshold" =>
        /\ \A e \in DOMAIN r.cv : r.cv[e] = NO_VIOLATIONS
        /\ r.v0 = IF inj.re < oracle.T THEN NO_VIOLATIONS ELSE "THERMAL"

NoCall == [wasActive |-> FALSE, raised |-> FALSE, mva |-> Zero]

NoResult == [mva |-> Zero, limiting_factor |-> NoneLF]

NoCheck == [v0 |-> None, cc |-> NoneLF, out |-> feasibility_check(NO_VIOLATIONS, NoneLF),
            contingency_scenario |-> ContingencyScenario(<<>>, <<>>),
            use_full_newton_raphson |-> FALSE]

\* contingency_check() as feasibility_check() gets it: not called (None) when
\* the intact network has violations.
ContingencyCheckRun(v0, cs, cv) ==
    IF v0 # NO_VIOLATIONS THEN NoneLF ELSE contingency_check(cs, cv)

\* --------------------------------------------- max_power_available_mva
\* Faulty variant: the midpoint computed from the upper limit alone.
MiddleOfUpperOnly(lower, upper) == CxHalf(upper)

\* Faulty variant: the sum of the limits, not halved.
MiddleNotHalved(lower, upper) == CxAdd(lower, upper)

\* Faulty variant: the midpoint computed from the lower limit alone.
MiddleOfLowerOnly(lower, upper) == CxHalf(lower)

\* (lower + upper) / 2
Middle(lower, upper) == CxHalf(CxAdd(lower, upper))

\* upper.real - lower.real < tolerance
Converged(lower, upper, tolerance) == upper.re - lower.re < tolerance

\* Faulty variant: only the active power of the upper limit is returned.
UpperLimitResultRealOnly(upper, lf) == [mva |-> Cx(upper.re, 0), limiting_factor |-> lf]

\* Faulty variant: half of the upper limit is returned.
UpperLimitResultHalved(upper, lf) == [mva |-> CxHalf(upper), limiting_factor |-> lf]

\* The value returned when the probe of the upper limit is feasible.
UpperLimitResult(upper, lf) == [mva |-> upper, limiting_factor |-> lf]

\* The value returned after the loop.
LoopResult(lower, lf) == [mva |-> lower, limiting_factor |-> lf]

\* Faulty variant: range(max_iterations).
LoopRangeWhole(n) == IF n > 0 THEN n ELSE 0

\* The number of midpoint probes the loop may make: range(max_iterations - 1).
LoopRange(n) == IF n - 1 > 0 THEN n - 1 ELSE 0

\* One probe: set the power on the subsystem, then feasibility_check().
\* chk is the record of the check made on the network response r.
CheckOf(r) ==
    LET cc == ContingencyCheckRun(r.v0, contingency_scenario, r.cv)
    IN  [v0 |-> r.v0, cc |-> cc, out |-> feasibility_check(r.v0, cc),
         contingency_scenario |-> contingency_scenario,
         use_full_newton_raphson |-> use_full_newton_raphson]

Logged(mva, chk) ==
    /\ passed' = passed \cup {chk.use_full_newton_raphson}
    /\ probeLog' = Append(probeLog, [mva |-> mva, is_feasible |-> chk.out.is_feasible])
    /\ lastInfeasibleLF' = IF chk.out.is_feasible THEN lastInfeasibleLF
                           ELSE chk.out.limiting_factor
    /\ lastCheck' = chk

\* temp_subsystem(mva) raises RuntimeError: the search ends with the error.
BisectUsageError ==
    /\ pcB \in {"start", "loop"}
    /\ pcB = "loop" => i < LoopRange(max_iterations)
    /\ TempCallRaises(temp_subsystem)
    /\ pcB' = "raised"
    /\ UNCHANGED <<OutsideBisect, varsNet, U, upper_limit_mva, lower_limit_mva, i,
                   limiting_factor, result, probeLog, setLog, lastInfeasibleLF,
                   lastCheck, passed>>

\* A call of the model raises: wf.load_chng_6 (in_set: the power is not set) or
\* a check (the power is set).  The error leaves the search.
BisectProbeRaises ==
    /\ pcB \in {"start", "loop"}
    /\ pcB = "loop" => i < LoopRange(max_iterations)
    /\ ~TempCallRaises(temp_subsystem)
    /\ \E in_set \in BOOLEAN :
          LET mva == IF pcB = "start" THEN upper_limit_mva
                     ELSE Middle(lower_limit_mva, upper_limit_mva)
          IN  IF in_set
              THEN net' = net /\ setLog' = setLog /\ passed' = passed
              ELSE /\ net' = TempCallNet(net, temp_subsystem, mva)
                   /\ setLog' = Append(setLog, mva)
                   /\ passed' = passed \cup {use_full_newton_raphson}
    /\ pcB' = "raised"
    /\ UNCHANGED <<OutsideBisect, temp_subsystem, U, upper_limit_mva, lower_limit_mva, i,
                   limiting_factor, result, probeLog, lastInfeasibleLF, lastCheck>>

\* Lines 233-240: the probe of the upper limit.
BisectProbeUpper ==
    /\ pcB = "start"
    /\ ~TempCallRaises(temp_subsystem)
    /\ net' = TempCallNet(net, temp_subsystem, upper_limit_mva)
    /\ setLog' = Append(setLog, upper_limit_mva)
    /\ \E r \in Responses(contingency_scenario) :
          /\ Admissible(contingency_scenario, r, Injection(net', temp_subsystem))
          /\ LET chk == CheckOf(r)
             IN  /\ Logged(upper_limit_mva, chk)
                 /\ limiting_factor' = chk.out.limiting_factor
                 /\ IF chk.out.is_feasible
                    THEN /\ result' = UpperLimitResult(upper_limit_mva,
                                                       chk.out.limiting_factor)
                         /\ pcB' = "done"
                    ELSE /\ result' = result
                         /\ pcB' = "loop"
    /\ UNCHANGED <<OutsideBisect, temp_subsystem, U, upper_limit_mva, lower_limit_mva, i>>

\* Lines 242-256: one iteration of the loop.
BisectIterate ==
    /\ pcB = "loop"
    /\ i < LoopRange(max_iterations)
    /\ ~TempCallRaises(temp_subsystem)
    /\ LET middle_mva == Middle(lower_limit_mva, upper_limit_mva)
       IN  /\ net' = TempCallNet(net, temp_subsystem, middle_mva)
           /\ setLog' = Append(setLog, middle_mva)
           /\ \E r \in Responses(contingency_scenario) :
                 /\ Admissible(contingency_scenario, r, Injection(net', temp_subsystem))
                 /\ LET chk == CheckOf(r)
                    IN  /\ Logged(middle_mva, chk)
                        /\ limiting_factor' = chk.out.limiting_factor
                        /\ IF chk.out.is_feasible
                           THEN /\ lower_limit_mva' = middle_mva
                                /\ upper_limit_mva' = upper_limit_mva
                           ELSE /\ upper_limit_mva' = middle_mva
                                /\ lower_limit_mva' = lower_limit_mva
    /\ i' = i + 1
    /\ IF Converged(lower_limit_mva', upper_limit_mva', solver_tolerance_p_mw)
       THEN /\ result' = LoopResult(lower_limit_mva', limiting_factor')
            /\ pcB' = "done"
       ELSE /\ result' = result
            /\ pcB' = "loop"
    /\ UNCHANGED <<OutsideBisect, temp_subsystem, U>>

\* Line 257: the loop ran out of iterations.
BisectExhausted ==
    /\ pcB = "loop"
    /\ i >= LoopRange(max_iterations)
    /\ result' = LoopResult(lower_limit_mva, limiting_factor)
    /\ pcB' = "done"
    /\ UNCHANGED <<OutsideBisect, varsNet, U, upper_limit_mva, lower_limit_mva, i,
                   limiting_factor, probeLog, setLog, lastInfeasibleLF, lastCheck,
                   passed>>

Bisect ==
    \/ BisectUsageError
    \/ BisectProbeRaises
    \/ BisectProbeUpper
    \/ BisectIterate
    \/ BisectExhausted

\* The state at the call max_power_available_mva(temp_subsystem, upper).
BisectCalled(upper) ==
    /\ pcB = "start"
    /\ U = upper
    /\ upper_limit_mva = upper
    /\ lower_limit_mva = Zero
    /\ i = 0
    /\ limiting_factor = NoneLF
    /\ result = NoResult
    /\ probeLog = <<>>
    /\ setLog = <<>>
    /\ lastInfeasibleLF = NoneLF
    /\ lastCheck = NoCheck

\* The call max_power_available_mva(temp_subsystem, upper) is made.
BisectCall(upper) ==
    /\ pcB' = "start"
    /\ U' = upper
    /\ upper_limit_mva' = upper
    /\ lower_limit_mva' = Zero
    /\ i' = 0
    /\ limiting_factor' = NoneLF
    /\ result' = NoResult
    /\ probeLog' = <<>>
    /\ setLog' = <<>>
    /\ lastInfeasibleLF' = NoneLF
    /\ lastCheck' = NoCheck

\* ------------------------------------------------ the search on its own
TempUnused ==
    /\ lastOp = None
    /\ lastCall = NoCall
    /\ netBefore = EmptyNet

AllElems == BranchIds \o TrafoIds

IsBranch(e) == e \in Range(BranchIds)

ScenUnused ==
    /\ branch_status = [e \in Range(AllElems) |-> 1]
    /\ disable_outcome = [e \in Range(AllElems) |-> "ok"]
    /\ solo_violations = [e \in Range(AllElems) |-> NO_VIOLATIONS]
    /\ status0 = branch_status
    /\ pcS = "idle"
    /\ elem_idx = 0
    /\ is_disabled = None
    /\ exc_pending = FALSE
    /\ is_not_critical = FALSE
    /\ not_critical_branches = <<>>
    /\ not_critical_trafos = <<>>
    /\ scoped = {}
    /\ checked = {}

CursorUnused ==
    /\ loads = <<>>
    /\ load_pos = 0
    /\ loads_available = FALSE
    /\ machines = <<>>
    /\ machine_pos = 0
    /\ machines_available = FALSE
    /\ actual_load_mva = Zero
    /\ actual_gen_mva = Zero
    /\ lastBus = 0
    /\ increasing = TRUE
    /\ nonDecreasing = TRUE
    /\ highestBus = 0

NoScenario == [given |-> FALSE, cs |-> ContingencyScenario(<<>>, <<>>)]

NoSelection == [given |-> FALSE, ids |-> {}]

RunUnused ==
    /\ case_net = EmptyNet
    /\ base_violations = NO_VIOLATIONS
    /\ fdns_converges = TRUE
    /\ supplied_scenario = NoScenario
    /\ upper_load_limit_mva = Zero
    /\ upper_gen_limit_mva = Zero
    /\ selected_buses_ids = NoSelection
    /\ pc = "idle"
    /\ use_full_newton_raphson = FALSE
    /\ opened = 0
    /\ bus_idx = 0
    /\ headrooms = <<>>
    /\ load_available_mva = Zero
    /\ load_lf = NoneLF
    /\ gen_available_mva = Zero
    /\ gen_lf = NoneLF

HistUnused ==
    /\ previous = [given |-> FALSE, mva |-> Zero]
    /\ builds = 0
    /\ solver_log = <<>>
    /\ passed = {}

UpperLimits == {Cx(Scale * k, Scale * k * q) : k \in 1..MaxU, q \in 0..1}

InitBisect ==
    /\ max_iterations \in 1..MaxIter
    /\ solver_tolerance_p_mw \in 1..MaxTol
    /\ contingency_scenario = ContingencyScenario(<<"b1">>, <<"t1">>)
    /\ \E upper \in UpperLimits :
          /\ BisectCalled(upper)
          /\ oracle \in {FreeOracle} \cup {ThresholdOracle(t) : t \in 1..(upper.re + 1)}
    /\ \E kind \in {"load", "machine"}, active \in BOOLEAN :
          /\ temp_subsystem = [kind |-> kind, bus |-> 1, active |-> active]
          /\ net = IF active THEN TempEnterNet(EmptyNet, temp_subsystem) ELSE EmptyNet
    /\ TempUnused
    /\ ScenUnused
    /\ CursorUnused
    /\ RunUnused
    /\ HistUnused

SpecBisect == InitBisect /\ [][Bisect]_vars

\* The search is sequential code: while it has a step to take, it takes it.
SpecBisectFair == SpecBisect /\ WF_vars(Bisect)

\* ------------------------------------- a temporary subsystem on its own
\* The three methods of TemporaryBusLoad, called by any client in any order
\* Python allows: `with` calls __enter__ and later __exit__, whether its block
\* ends normally or by an exception; __call__ may come at any time.
Powers == {Cx(Scale * k, Scale * q) : k \in 1..MaxU, q \in 0..1}

BaseNets ==
    {EmptyNet,
     [load |-> (<<1, "1">> :> Cx(5, 2)) @@ (<<2, "1">> :> Cx(1, 0)),
      machine |-> (<<2, "1">> :> Cx(3, 1))]}

\* `with temp_subsystem:` is entered.
WithEnter ==
    /\ net' = TempEnterNet(net, temp_subsystem)
    /\ temp_subsystem' = TempEnter(temp_subsystem)
    /\ netBefore' = net
    /\ lastOp' = "__enter__"
    /\ lastCall' = lastCall

\* `with temp_subsystem:` is left; exc: by an exception (exc_type is not None).
WithExit(exc) ==
    /\ net' = TempExitNet(net, temp_subsystem)
    /\ temp_subsystem' = TempExit(temp_subsystem)
    /\ lastOp' = IF exc THEN "__exit__ on error" ELSE "__exit__"
    /\ UNCHANGED <<lastCall, netBefore>>

TemporaryBusLoadEnter ==
    /\ temp_subsystem # NoSubsystem
    /\ ~temp_subsystem.active
    /\ WithEnter
    /\ UNCHANGED OutsideTemp

TemporaryBusLoadExit(exc) ==
    /\ temp_subsystem.active
    /\ WithExit(exc)
    /\ UNCHANGED OutsideTemp

TemporaryBusLoadCall(new_load) ==
    /\ temp_subsystem # NoSubsystem
    /\ lastOp' = "__call__"
    /\ lastCall' = [wasActive |-> temp_subsystem.active,
                    raised |-> TempCallRaises(temp_subsystem),
                    mva |-> new_load]
    /\ IF TempCallRaises(temp_subsystem)
       THEN net' = net
       ELSE net' = TempCallNet(net, temp_subsystem, new_load)
    /\ UNCHANGED <<OutsideTemp, temp_subsystem, netBefore>>

TempClient ==
    \/ TemporaryBusLoadEnter
    \/ \E exc \in BOOLEAN : TemporaryBusLoadExit(exc)
    \/ \E new_load \in Powers : TemporaryBusLoadCall(new_load)

BisectUnused ==
    /\ pcB = "idle"
    /\ U = Zero
    /\ upper_limit_mva = Zero
    /\ lower_limit_mva = Zero
    /\ i = 0
    /\ limiting_factor = NoneLF
    /\ result = NoResult
    /\ probeLog = <<>>
    /\ setLog = <<>>
    /\ lastInfeasibleLF = NoneLF
    /\ lastCheck = NoCheck

CfgUnused ==
    /\ max_iterations = 1
    /\ solver_tolerance_p_mw = 1
    /\ contingency_scenario = ContingencyScenario(<<>>, <<>>)
    /\ oracle = FreeOracle

InitTemp ==
    /\ CfgUnused
    /\ BisectUnused
    /\ net \in BaseNets
    /\ \E kind \in {"load", "machine"}, bus \in Buses :
          temp_subsystem = TemporaryBusSubsystem(kind, bus)
    /\ lastOp = None
    /\ lastCall = NoCall
    /\ netBefore = net
    /\ ScenUnused
    /\ CursorUnused
    /\ RunUnused
    /\ HistUnused

SpecTemp == InitTemp /\ [][TempClient]_vars

\* ------------------------------------------------ get_contingency_scenario
\* Python's truth value of what `with ... as is_disabled` bound.
Truthy(x) == x = "True"

\* wf.branch_chng_3(..., st): the STATUS of the element afterwards.
branch_chng_3(status, e, st) == [status EXCEPT ![e] = st]

\* Branch.is_enabled: STATUS != 0
is_enabled(status, e) == status[e] # 0

\* disable_branch, line 52: the call that takes the branch out of service;
\* a rejected call leaves the STATUS as it is.
disable_branch_enter(status, e, outcome) ==
    IF outcome = "ok" THEN branch_chng_3(status, e, 0) ELSE status

\* disable_branch, line 53: what the scope yields (a bare `yield`).
disable_branch_yield(outcome) == None

\* Faulty variant: the scope does not put the branch back in service.
disable_branch_exit_forgets(status, e) == status

\* disable_branch, lines 54-55: finally, put the branch back in service.
disable_branch_exit(status, e) == branch_chng_3(status, e, 1)

\* disable_trafo: sets the STATUS to disabled and reports whether that
\* succeeded; on exit, restores the STATUS to enabled.
disable_trafo_enter(status, e, outcome) ==
    IF outcome = "ok" THEN branch_chng_3(status, e, 0) ELSE status

disable_trafo_yield(outcome) == IF outcome = "ok" THEN "True" ELSE "False"

disable_trafo_exit(status, e) == branch_chng_3(status, e, 1)

CurrentElem == AllElems[elem_idx]

\* The generator expressions of lines 304-309 move on to the next element,
\* keeping the current one when *_is_not_critical returned True.
ScenAdvance(keep) ==
    /\ not_critical_branches' =
           IF keep /\ IsBranch(CurrentElem)
           THEN Append(not_critical_branches, CurrentElem) ELSE not_critical_branches
    /\ not_critical_trafos' =
           IF keep /\ ~IsBranch(CurrentElem)
           THEN Append(not_critical_trafos, CurrentElem) ELSE not_critical_trafos
    /\ IF elem_idx < Len(AllElems)
       THEN elem_idx' = elem_idx + 1 /\ pcS' = "test"
       ELSE elem_idx' = elem_idx /\ pcS' = "done"

\* Lines 316-317 (327-328): is_enabled(), then the disabling scope is entered.
ScenEnterScope ==
    /\ pcS = "test"
    /\ LET e == CurrentElem
           outcome == disable_outcome[e]
       IN  IF ~is_enabled(branch_status, e)
           THEN /\ ScenAdvance(FALSE)
                /\ is_not_critical' = FALSE
                /\ UNCHANGED <<branch_status, is_disabled, exc_pending, scoped>>
           ELSE /\ scoped' = scoped \cup {e}
                /\ branch_status' =
                       IF IsBranch(e) THEN disable_branch_enter(branch_status, e, outcome)
                       ELSE disable_trafo_enter(branch_status, e, outcome)
                /\ IF outcome = "raises"
                   THEN /\ exc_pending' = TRUE
                        /\ is_disabled' = None
                        /\ pcS' = "finally"
                   ELSE /\ exc_pending' = FALSE
                        /\ is_disabled' = IF IsBranch(e) THEN disable_branch_yield(outcome)
                                          ELSE disable_trafo_yield(outcome)
                        /\ pcS' = "body"
                /\ is_not_critical' = FALSE
                /\ UNCHANGED <<elem_idx, not_critical_branches, not_critical_trafos>>
    /\ UNCHANGED <<OutsideScen, disable_outcome, solo_violations, status0, checked,
                   passed>>

\* Lines 318-321 (329-332): the body of the `with`.
ScenBody ==
    /\ pcS = "body"
    /\ LET e == CurrentElem
       IN  IF Truthy(is_disabled)
           THEN /\ checked' = checked \cup {e}
                /\ passed' = passed \cup {use_full_newton_raphson}
                /\ IF solo_violations[e] = "error"
                   THEN exc_pending' = TRUE /\ is_not_critical' = FALSE
                   ELSE /\ exc_pending' = FALSE
                        /\ is_not_critical' = (solo_violations[e] = NO_VIOLATIONS)
           ELSE /\ checked' = checked
                /\ passed' = passed
                /\ exc_pending' = FALSE
                /\ is_not_critical' = FALSE
    /\ pcS' = "finally"
    /\ UNCHANGED <<OutsideScen, varsBranch, elem_idx, is_disabled,
                   not_critical_branches, not_critical_trafos, scoped>>

\* Lines 54-55: the scope is left; an exception goes on to the caller.
ScenExitScope ==
    /\ pcS = "finally"
    /\ LET e == CurrentElem
       IN  branch_status' = IF IsBranch(e) THEN disable_branch_exit(branch_status, e)
                            ELSE disable_trafo_exit(branch_status, e)
    /\ IF exc_pending
       THEN /\ pcS' = "raised"
            /\ UNCHANGED <<elem_idx, not_critical_branches, not_critical_trafos>>
       ELSE ScenAdvance(is_not_critical)
    /\ UNCHANGED <<OutsideScen, disable_outcome, solo_violations, status0,
                   is_disabled, exc_pending, is_not_critical, scoped, checked, passed>>

GetContingencyScenario ==
    \/ ScenEnterScope
    \/ ScenBody
    \/ ScenExitScope

\* The state at the call get_contingency_scenario().
ScenCalled ==
    /\ pcS = "test"
    /\ elem_idx = 1
    /\ is_disabled = None
    /\ exc_pending = FALSE
    /\ is_not_critical = FALSE
    /\ not_critical_branches = <<>>
    /\ not_critical_trafos = <<>>
    /\ scoped = {}
    /\ checked = {}

\* The call get_contingency_scenario() is made.
ScenCall ==
    /\ pcS' = "test"
    /\ elem_idx' = 1
    /\ is_disabled' = None
    /\ exc_pending' = FALSE
    /\ is_not_critical' = FALSE
    /\ not_critical_branches' = <<>>
    /\ not_critical_trafos' = <<>>
    /\ scoped' = {}
    /\ checked' = {}

DisableOutcomes(e) == IF IsBranch(e) THEN {"ok", "rejected", "raises"} ELSE {"ok", "rejected"}

BranchEnvironments ==
    {f \in [Range(AllElems) -> {"ok", "rejected", "raises"}] :
        \A e \in Range(AllElems) : f[e] \in DisableOutcomes(e)}

InitScenario ==
    /\ CfgUnused
    /\ BisectUnused
    /\ TempUnused
    /\ net = EmptyNet
    /\ temp_subsystem = NoSubsystem
    /\ branch_status \in [Range(AllElems) -> {0, 1}]
    /\ status0 = branch_status
    /\ disable_outcome \in BranchEnvironments
    /\ solo_violations \in [Range(AllElems) -> Violations \cup {"error"}]
    /\ ScenCalled
    /\ CursorUnused
    /\ RunUnused
    /\ HistUnused

SpecScenario == InitScenario /\ [][GetContingencyScenario]_vars

\* ------------------------------- bus_actual_load_mva, bus_actual_gen_mva
\* next(iterator): the next record, or StopIteration at the end of the list,
\* which leaves the current record in place and clears the available flag.
CursorNext(list, pos) ==
    IF pos < Len(list) THEN [pos |-> pos + 1, available |-> TRUE]
    ELSE [pos |-> pos, available |-> FALSE]

\* Faulty variant: the list is iterated from its first record on every call.
RECURSIVE SweepFrom(_, _, _, _)
SweepFrom(list, pos, available, bus_number) ==
    IF available /\ list[pos].number <= bus_number
    THEN LET last == pos >= Len(list)
             rest == SweepFrom(list, IF last THEN pos ELSE pos + 1, ~last, bus_number)
         IN  [sum |-> IF list[pos].number = bus_number
                      THEN CxAdd(list[pos].mva, rest.sum) ELSE rest.sum,
              pos |-> rest.pos, available |-> rest.available]
    ELSE [sum |-> Zero, pos |-> pos, available |-> available]

CursorSweepRestarts(list, pos, available, bus_number) ==
    SweepFrom(list, IF Len(list) > 0 THEN 1 ELSE 0, Len(list) > 0, bus_number)

\* Faulty variant: the loop stops at the first record of the bus.
RECURSIVE CursorSweepFirstOnly(_, _, _, _)
CursorSweepFirstOnly(list, pos, available, bus_number) ==
    IF available /\ list[pos].number <= bus_number
    THEN LET next == CursorNext(list, pos)
         IN  IF list[pos].number = bus_number
             THEN [sum |-> list[pos].mva, pos |-> next.pos, available |-> next.available]
             ELSE CursorSweepFirstOnly(list, next.pos, next.available, bus_number)
    ELSE [sum |-> Zero, pos |-> pos, available |-> available]

\* The while loop of lines 203-209 (218-224): records are consumed while their
\* bus number is <= bus_number, and those of the bus itself are added up.
RECURSIVE CursorSweep(_, _, _, _)
CursorSweep(list, pos, available, bus_number) ==
    IF available /\ list[pos].number <= bus_number
    THEN LET next == CursorNext(list, pos)
             rest == CursorSweep(list, next.pos, next.available, bus_number)
         IN  [sum |-> IF list[pos].number = bus_number
                      THEN CxAdd(list[pos].mva, rest.sum) ELSE rest.sum,
              pos |-> rest.pos, available |-> rest.available]
    ELSE [sum |-> Zero, pos |-> pos, available |-> available]

\* Lines 104-115: iter(list) and the first next().
CursorInit(list) ==
    IF Len(list) > 0 THEN [pos |-> 1, available |-> TRUE]
    ELSE [pos |-> 0, available |-> FALSE]

\* Lines 167-168: the two calls bus_headroom makes for a bus.
BusActualMva(bus_number) ==
    /\ LET l == CursorSweep(loads, load_pos, loads_available, bus_number)
           m == CursorSweep(machines, machine_pos, machines_available, bus_number)
       IN  /\ actual_load_mva' = l.sum
           /\ load_pos' = l.pos
           /\ loads_available' = l.available
           /\ actual_gen_mva' = m.sum
           /\ machine_pos' = m.pos
           /\ machines_available' = m.available
    /\ lastBus' = bus_number
    /\ increasing' = (increasing /\ bus_number > lastBus)
    /\ nonDecreasing' = (nonDecreasing /\ bus_number >= lastBus)
    /\ highestBus' = IF bus_number > highestBus THEN bus_number ELSE highestBus
    /\ UNCHANGED <<loads, machines>>

\* ------------------------------------------------ the cursors on their own
\* Largest bus number.
MaxBus == 3
\* Longest list of loads.
MaxLoads == 2
\* Longest list of machines.
MaxMachines == 1

LoadPowers == {Cx(5, 0), Cx(3, 1)}

MachinePowers == {Cx(2, 1)}

IsSortedByBus(list) == \A k \in 1..(Len(list) - 1) : list[k].number <= list[k + 1].number

\* The lists the model can return: any records, sorted by bus number.
SortedLists(maxLen, powers) ==
    {list \in UNION {[1..n -> [number : 1..MaxBus, mva : powers]] : n \in 0..maxLen} :
        IsSortedByBus(list)}

BusActualAny ==
    /\ \E bus_number \in 1..MaxBus : BusActualMva(bus_number)
    /\ UNCHANGED OutsideCursor

InitCursor ==
    /\ CfgUnused
    /\ BisectUnused
    /\ TempUnused
    /\ ScenUnused
    /\ net = EmptyNet
    /\ temp_subsystem = NoSubsystem
    /\ loads \in SortedLists(MaxLoads, LoadPowers)
    /\ machines \in SortedLists(MaxMachines, MachinePowers)
    /\ load_pos = CursorInit(loads).pos
    /\ loads_available = CursorInit(loads).available
    /\ machine_pos = CursorInit(machines).pos
    /\ machines_available = CursorInit(machines).available
    /\ actual_load_mva = Zero
    /\ actual_gen_mva = Zero
    /\ lastBus = 0
    /\ increasing = TRUE
    /\ nonDecreasing = TRUE
    /\ highestBus = 0
    /\ RunUnused
    /\ HistUnused

SpecCursor == InitCursor /\ [][BusActualAny]_vars

\* --------------------------------------------------------- buses_headroom
\* Buses(): the bus numbers of the case, in the order the model returns them.
CaseBuses == <<1, 2>>

\* The keys a load or machine of the case can have, in the model's order
\* (by bus number, then by identifier).
ElementKeys == <<<<1, "1">>, <<1, TEMP_LOAD_ID>>, <<2, "1">>, <<2, TEMP_LOAD_ID>>>>

\* Loads() and Machines(): the records of the working case, by bus number.
RECURSIVE RecordsOf(_, _)
RecordsOf(elems, keys) ==
    IF keys = <<>> THEN <<>>
    ELSE IF Head(keys) \in DOMAIN elems
         THEN <<[number |-> Head(keys)[1], mva |-> elems[Head(keys)]]>>
                  \o RecordsOf(elems, Tail(keys))
         ELSE RecordsOf(elems, Tail(keys))

\* Faulty variant: the base case is accepted whatever it violates.
BaseCaseFailsNever(violations) == FALSE

\* check_base_case_violations, line 133.
BaseCaseFails(violations) == violations # NO_VIOLATIONS

\* Faulty variant: the full method is never selected.
UseFullNewtonRaphsonNever(is_applicable) == FALSE

\* Line 99: self._use_full_newton_raphson = not self.fdns_is_applicable()
UseFullNewtonRaphson(is_applicable) == ~is_applicable

\* Faulty variant: a scenario is built whether or not one is given.
ScenarioIsGivenNever(scenario) == FALSE

\* Line 140: contingency_scenario is not None
ScenarioIsGiven(scenario) == scenario.given

\* Faulty variant: the generation headroom is searched for every bus.
GenIsSearchedAlways(actual_gen, load_available) == TRUE

\* Line 178: actual_gen_mva != 0 and load_available_mva != 0j
GenIsSearched(actual_gen, load_available) ==
    actual_gen # Zero /\ load_available # Zero

\* wf.open_case(case_name): the working case is the saved case again.
OpenCase ==
    /\ net' = case_net
    /\ branch_status' = status0

\* Line 99, fdns_is_applicable: the case is opened and solved with the decoupled
\* solver; when that does not converge it is opened again and solved in full.
FdnsIsApplicable ==
    /\ pc = "start"
    /\ OpenCase
    /\ opened' = IF fdns_converges THEN opened + 1 ELSE opened + 2
    /\ use_full_newton_raphson' = UseFullNewtonRaphson(fdns_converges)
    /\ solver_log' = IF fdns_converges THEN <<"open_case", "fdns">>
                      ELSE <<"open_case", "fdns", "open_case", "full">>
    /\ pc' = "check_base"
    /\ UNCHANGED <<varsCfg, temp_subsystem, varsBisect, varsTemp, disable_outcome,
                   solo_violations, status0, varsScen, varsCursor, varsInput,
                   previous, builds, passed,
                   bus_idx, headrooms, load_available_mva, load_lf,
                   gen_available_mva, gen_lf>>

\* Line 100, check_base_case_violations: RuntimeError when the base case has
\* violations.
CheckBaseCaseViolations ==
    /\ pc = "check_base"
    /\ pc' = IF BaseCaseFails(base_violations) THEN "raised" ELSE "handle_scenario"
    /\ passed' = passed \cup {use_full_newton_raphson}
    /\ UNCHANGED <<varsCfg, varsNet, varsBisect, varsTemp, varsBranch, varsScen,
                   varsCursor, varsInput, previous, builds, solver_log, use_full_newton_raphson, opened, bus_idx,
                   headrooms, load_available_mva, load_lf, gen_available_mva, gen_lf>>

\* Lines 101-103 and 140-142: the scenario given is kept, or one is built.
HandleEmptyContingencyScenario ==
    /\ pc = "handle_scenario"
    /\ IF ScenarioIsGiven(supplied_scenario)
       THEN /\ contingency_scenario' = supplied_scenario.cs
            /\ pc' = "cursors"
            /\ builds' = builds
            /\ UNCHANGED varsScen
       ELSE /\ contingency_scenario' = contingency_scenario
            /\ pc' = "building"
            /\ builds' = builds + 1
            /\ ScenCall
    /\ UNCHANGED <<max_iterations, solver_tolerance_p_mw, oracle, varsNet, varsBisect,
                   varsTemp, varsBranch, varsCursor, varsInput, previous, solver_log,
                   passed,
                   use_full_newton_raphson, opened, bus_idx, headrooms,
                   load_available_mva, load_lf, gen_available_mva, gen_lf>>

\* Lines 142-145: the scenario built is kept and the case is opened again.
ScenarioBuilt ==
    /\ pc = "building"
    /\ pcS = "done"
    /\ contingency_scenario' =
           ContingencyScenario(not_critical_branches, not_critical_trafos)
    /\ OpenCase
    /\ opened' = opened + 1
    /\ pc' = "cursors"
    /\ UNCHANGED <<max_iterations, solver_tolerance_p_mw, oracle, temp_subsystem,
                   varsBisect, varsTemp, disable_outcome, solo_violations, status0,
                   varsScen, varsCursor, varsInput, varsHist, use_full_newton_raphson, bus_idx,
                   headrooms, load_available_mva, load_lf, gen_available_mva, gen_lf>>

\* An exception of get_contingency_scenario leaves the constructor.
ScenarioRaised ==
    /\ pc = "building"
    /\ pcS = "raised"
    /\ pc' = "raised"
    /\ UNCHANGED <<varsCfg, varsNet, varsBisect, varsTemp, varsBranch, varsScen,
                   varsCursor, varsInput, varsHist, use_full_newton_raphson, opened, bus_idx,
                   headrooms, load_available_mva, load_lf, gen_available_mva, gen_lf>>

\* Lines 104-115: the two iterators and their first records.
InitCursors ==
    /\ pc = "cursors"
    /\ loads' = RecordsOf(net.load, ElementKeys)
    /\ machines' = RecordsOf(net.machine, ElementKeys)
    /\ load_pos' = CursorInit(loads').pos
    /\ loads_available' = CursorInit(loads').available
    /\ machine_pos' = CursorInit(machines').pos
    /\ machines_available' = CursorInit(machines').available
    /\ pc' = "constructed"
    /\ UNCHANGED <<varsCfg, varsNet, varsBisect, varsTemp, varsBranch, varsScen,
                   actual_load_mva, actual_gen_mva, lastBus, increasing, nonDecreasing,
                   highestBus,
                   varsInput, varsHist, use_full_newton_raphson, opened, bus_idx, headrooms,
                   load_available_mva, load_lf, gen_available_mva, gen_lf>>

\* Faulty variant: the selection is not looked at.
InScopeAlways(bus_number) == TRUE

\* `bus.number in self._selected_buses_ids`, or no selection.
InScope(bus_number) ==
    ~selected_buses_ids.given \/ bus_number \in selected_buses_ids.ids

\* Lines 158-163: the generator expression moves to the next bus in scope,
\* or the tuple is complete and returned.
SweepNext ==
    /\ pc = "constructed"
    /\ LET later == {k \in (bus_idx + 1)..Len(CaseBuses) : InScope(CaseBuses[k])}
       IN  IF later = {}
           THEN /\ pc' = "returned"
                /\ bus_idx' = Len(CaseBuses)
           ELSE /\ pc' = "bus_headroom"
                /\ bus_idx' = CHOOSE k \in later : \A j \in later : k <= j
    /\ UNCHANGED <<varsCfg, varsNet, varsBisect, varsTemp, varsBranch, varsScen,
                   varsCursor, varsInput, varsHist, use_full_newton_raphson, opened, headrooms,
                   load_available_mva, load_lf, gen_available_mva, gen_lf>>

CurrentBus == CaseBuses[bus_idx]

\* Lines 167-171: the actual load and generation, and the temporary load.
BusHeadroomActual ==
    /\ pc = "bus_headroom"
    /\ BusActualMva(CurrentBus)
    /\ temp_subsystem' = TemporaryBusSubsystem("load", CurrentBus)
    /\ pc' = "load_enter"
    /\ UNCHANGED <<varsCfg, net, varsBisect, varsTemp, varsBranch, varsScen,
                   varsInput, varsHist, use_full_newton_raphson, opened, bus_idx, headrooms,
                   load_available_mva, load_lf, gen_available_mva, gen_lf>>

\* Lines 172-173 (180-181): the scope is entered and the search is called.
BusHeadroomEnter ==
    /\ pc \in {"load_enter", "gen_enter"}
    /\ WithEnter
    /\ BisectCall(IF pc = "load_enter" THEN upper_load_limit_mva
                  ELSE upper_gen_limit_mva)
    /\ pc' = IF pc = "load_enter" THEN "load_search" ELSE "gen_search"
    /\ UNCHANGED <<varsCfg, varsBranch, varsScen, varsCursor, varsInput, varsHist,
                   use_full_newton_raphson, opened, bus_idx, headrooms,
                   load_available_mva, load_lf, gen_available_mva, gen_lf>>

\* Lines 172-177: the load scope is left, by the return of the search or by its
\* exception, which goes on to the caller.
BusHeadroomExitLoad ==
    /\ pc = "load_search"
    /\ pcB \in {"done", "raised"}
    /\ WithExit(pcB = "raised")
    /\ IF pcB = "raised"
       THEN /\ pc' = "raised"
            /\ UNCHANGED <<load_available_mva, load_lf, gen_available_mva, gen_lf>>
       ELSE /\ pc' = "gen_decide"
            /\ load_available_mva' = result.mva
            /\ load_lf' = result.limiting_factor
            /\ gen_available_mva' = Zero
            /\ gen_lf' = NoneLF
    /\ pcB' = "idle"
    /\ UNCHANGED <<varsCfg, U, upper_limit_mva, lower_limit_mva, i, limiting_factor,
                   result, probeLog, setLog, lastInfeasibleLF, lastCheck, varsBranch,
                   varsScen, varsCursor, varsInput, varsHist, use_full_newton_raphson, opened,
                   bus_idx, headrooms>>

\* Lines 178-179: the generation headroom is searched, or not.
BusHeadroomGenDecide ==
    /\ pc = "gen_decide"
    /\ IF GenIsSearched(actual_gen_mva, load_available_mva)
       THEN /\ temp_subsystem' = TemporaryBusSubsystem("machine", CurrentBus)
            /\ pc' = "gen_enter"
       ELSE /\ temp_subsystem' = temp_subsystem
            /\ pc' = "record"
    /\ UNCHANGED <<varsCfg, net, varsBisect, varsTemp, varsBranch, varsScen,
                   varsCursor, varsInput, varsHist, use_full_newton_raphson, opened, bus_idx,
                   headrooms, load_available_mva, load_lf, gen_available_mva, gen_lf>>

\* Lines 180-183: the generator scope is left.
BusHeadroomExitGen ==
    /\ pc = "gen_search"
    /\ pcB \in {"done", "raised"}
    /\ WithExit(pcB = "raised")
    /\ IF pcB = "raised"
       THEN /\ pc' = "raised"
            /\ UNCHANGED <<gen_available_mva, gen_lf>>
       ELSE /\ pc' = "record"
            /\ gen_available_mva' = result.mva
            /\ gen_lf' = result.limiting_factor
    /\ pcB' = "idle"
    /\ UNCHANGED <<varsCfg, U, upper_limit_mva, lower_limit_mva, i, limiting_factor,
                   result, probeLog, setLog, lastInfeasibleLF, lastCheck, varsBranch,
                   varsScen, varsCursor, varsInput, varsHist, use_full_newton_raphson, opened,
                   bus_idx, headrooms, load_available_mva, load_lf>>

BusHeadroom(bus, al, ag, la, ga, llf, glf) ==
    [bus |-> bus, actual_load_mva |-> al, actual_gen_mva |-> ag,
     load_avail_mva |-> la, gen_avail_mva |-> ga, load_lf |-> llf, gen_lf |-> glf]

\* Lines 184-195: the record of the bus.
BusHeadroomRecord ==
    /\ pc = "record"
    /\ headrooms' = Append(headrooms,
           BusHeadroom(CurrentBus, actual_load_mva, actual_gen_mva,
                       load_available_mva, gen_available_mva, load_lf, gen_lf))
    /\ pc' = "constructed"
    /\ UNCHANGED <<varsCfg, varsNet, varsBisect, varsTemp, varsBranch, varsScen,
                   varsCursor, varsInput, varsHist, use_full_newton_raphson, opened, bus_idx,
                   load_available_mva, load_lf, gen_available_mva, gen_lf>>

\* Inside its `with` the subsystem is active, so that its __call__ never raises
\* the usage error: the search is left by its return or by an error of the model.
BisectInScope ==
    \/ BisectProbeRaises
    \/ BisectProbeUpper
    \/ BisectIterate
    \/ BisectExhausted

Next ==
    \/ FdnsIsApplicable
    \/ CheckBaseCaseViolations
    \/ HandleEmptyContingencyScenario
    \/ GetContingencyScenario
    \/ ScenarioBuilt
    \/ ScenarioRaised
    \/ InitCursors
    \/ SweepNext
    \/ BusHeadroomActual
    \/ BusHeadroomEnter
    \/ BisectInScope
    \/ BusHeadroomExitLoad
    \/ BusHeadroomGenDecide
    \/ BusHeadroomExitGen
    \/ BusHeadroomRecord

\* The cases and arguments of the runs checked.
RunThresholds == {1, Scale \div 2 + 1, Scale + 1, 2 * Scale + 1}

RunSelections ==
    {NoSelection, [given |-> TRUE, ids |-> {2}], [given |-> TRUE, ids |-> {2, 1}],
     [given |-> TRUE, ids |-> {3}]}

RunScenarios == {NoScenario, [given |-> TRUE, cs |-> ContingencyScenario(<<"b1">>, <<>>)]}

RunBranchEnvironments ==
    {f \in BranchEnvironments : f["b1"] = "ok" /\ f["t1"] = "ok"}

Init ==
    /\ max_iterations \in 1..2
    /\ solver_tolerance_p_mw = 1
    /\ contingency_scenario = ContingencyScenario(<<>>, <<>>)
    /\ oracle \in {ThresholdOracle(t) : t \in RunThresholds}
    /\ net = EmptyNet
    /\ temp_subsystem = NoSubsystem
    /\ BisectUnused
    /\ TempUnused
    /\ status0 \in {[e \in Range(AllElems) |-> 1],
                    [e \in Range(AllElems) |-> IF e = "b1" THEN 0 ELSE 1]}
    /\ branch_status = status0
    /\ supplied_scenario \in RunScenarios
    /\ IF supplied_scenario.given
       THEN /\ disable_outcome = [e \in Range(AllElems) |-> "ok"]
            /\ solo_violations = [e \in Range(AllElems) |-> NO_VIOLATIONS]
       ELSE /\ disable_outcome \in RunBranchEnvironments
            /\ solo_violations \in
                   {[e \in Range(AllElems) |-> NO_VIOLATIONS],
                    [e \in Range(AllElems) |-> IF e = "t1" THEN "VOLTAGE" ELSE NO_VIOLATIONS]}
    /\ pcS = "idle"
    /\ elem_idx = 0
    /\ is_disabled = None
    /\ exc_pending = FALSE
    /\ is_not_critical = FALSE
    /\ not_critical_branches = <<>>
    /\ not_critical_trafos = <<>>
    /\ scoped = {}
    /\ checked = {}
    /\ CursorUnused
    /\ case_net \in BaseNets
    /\ base_violations \in Violations
    /\ fdns_converges \in BOOLEAN
    /\ upper_load_limit_mva = Cx(Scale, Scale)
    /\ upper_gen_limit_mva = Cx(2 * Scale, 0)
    /\ selected_buses_ids \in RunSelections
    /\ pc = "start"
    /\ use_full_newton_raphson = FALSE
    /\ opened = 0
    /\ bus_idx = 0
    /\ headrooms = <<>>
    /\ load_available_mva = Zero
    /\ load_lf = NoneLF
    /\ gen_available_mva = Zero
    /\ gen_lf = NoneLF
    /\ HistUnused

Spec == Init /\ [][Next]_vars

\* ------------------------------------------------ the search, repeated
\* A client of max_power_available_mva calls it a second time within the same
\* scope, with the value the first search returned as the upper limit.
BisectAgain ==
    /\ pcB = "done"
    /\ ~previous.given
    /\ previous' = [given |-> TRUE, mva |-> result.mva]
    /\ BisectCall(result.mva)
    /\ UNCHANGED <<varsCfg, varsNet, varsTemp, varsBranch, varsScen, varsCursor,
                   varsInput, varsRun, builds, solver_log, passed>>

\* Deterministic monotone networks: feasible below a threshold, which may be 0
\* (nothing is feasible) or above the upper limit (everything is).
InitAgain ==
    /\ max_iterations \in 1..MaxIter
    /\ solver_tolerance_p_mw \in 1..MaxTol
    /\ contingency_scenario = ContingencyScenario(<<"b1">>, <<"t1">>)
    /\ \E upper \in UpperLimits :
          /\ BisectCalled(upper)
          /\ oracle \in {ThresholdOracle(t) : t \in 0..(upper.re + 1)}
    /\ temp_subsystem = TempEnter(TemporaryBusSubsystem("load", 1))
    /\ net = TempEnterNet(EmptyNet, temp_subsystem)
    /\ TempUnused
    /\ ScenUnused
    /\ CursorUnused
    /\ RunUnused
    /\ HistUnused

SpecAgain == InitAgain /\ [][BisectInScope \/ BisectAgain]_vars

\* ------------------------------------- the search with the default settings
\* buses_headroom's defaults: max_iterations = 10, solver_tolerance_p_mw = 5.0.
DefaultMaxIterations == 10

DefaultTolerance == 5

\* Powers of these searches are counted in units of 1/ExampleScale MW, which
\* keeps the midpoints of DefaultMaxIterations iterations exact.
ExampleScale == Pow2(DefaultMaxIterations - 1)

Mw(p) == p * ExampleScale

\* Searches from an upper limit of 50 MW inside an entered temporary load
\* scope, the network being feasible below a threshold of 5, 10, .. 55 MW.
InitExample ==
    /\ max_iterations \in 1..DefaultMaxIterations
    /\ solver_tolerance_p_mw = Mw(DefaultTolerance)
    /\ contingency_scenario = ContingencyScenario(<<"b1">>, <<"t1">>)
    /\ \E q \in {0, 24} : BisectCalled(Cx(Mw(50), Mw(q)))
    /\ oracle \in {ThresholdOracle(Mw(5 * t)) : t \in 1..11}
    /\ temp_subsystem = TempEnter(TemporaryBusSubsystem("load", 1))
    /\ net = TempEnterNet(EmptyNet, temp_subsystem)
    /\ TempUnused
    /\ ScenUnused
    /\ CursorUnused
    /\ RunUnused
    /\ HistUnused

SpecExample == InitExample /\ [][BisectInScope]_vars

\* ------------------------------------------------------------- properties
Returned == pcB = "done"

UpperInfeasible == probeLog # <<>> /\ ~probeLog[1].is_feasible

UpperFeasible == probeLog # <<>> /\ probeLog[1].is_feasible

\* The oracle is monotone with threshold T, 0 < T <= U.real.
MonotoneCase == oracle.kind = "threshold" /\ 0 < oracle.T /\ oracle.T <= U.re

\* The returned active power is feasible and within the tolerance of T.
WithinTolerance ==
    /\ result.mva.re < oracle.T
    /\ oracle.T - result.mva.re <= solver_tolerance_p_mw

\* The iteration cap does not cut the search short:
\* U.real / 2^(max(max_iterations, 1) - 1) < tolerance.
CapAllowsConvergence == U.re < solver_tolerance_p_mw * Pow2(max_iterations - 1)

\* C1 as stated: for a monotone oracle with threshold T, 0 < T <= U.real, the
\* returned active power is feasible and within tolerance of T, for every upper
\* limit, tolerance and max_iterations.
C1_WithinToleranceAlways == (Returned /\ MonotoneCase) => WithinTolerance

\* C1 amended: the same, for the searches the iteration cap does not cut short,
\* U.real / 2^(max(max_iterations, 1) - 1) < tolerance.
C1_WithinToleranceWhenCapAllows ==
    (Returned /\ MonotoneCase /\ CapAllowsConvergence) => WithinTolerance

C1_Witness ==
    /\ Returned /\ MonotoneCase /\ CapAllowsConvergence
    /\ Len(probeLog) >= 3
    /\ result.mva.re > 0
    /\ oracle.T - result.mva.re > 1

\* C2: when the first probe, at the upper limit U, is feasible, the search has
\* returned exactly U (real and imaginary part) after that one probe, and U is
\* the only power ever set on the temporary subsystem.
C2_UpperFeasibleReturnsUpper ==
    UpperFeasible =>
        /\ Returned
        /\ result.mva = U
        /\ Len(probeLog) = 1
        /\ setLog = <<U>>
        /\ Injection(net, temp_subsystem) = U

C2_Witness == Returned /\ UpperFeasible /\ U.im # 0 /\ max_iterations > 1

\* C3 as stated: when the upper limit is infeasible, the limiting factor
\* returned is the one of the most recent infeasible probe, and is never None.
C3_FactorOfLastInfeasibleProbe ==
    (Returned /\ UpperInfeasible) =>
        /\ result.limiting_factor = lastInfeasibleLF
        /\ result.limiting_factor # NoneLF

\* C8: feasibility_check returns (True, None) exactly when the intact check and
\* the contingency check both report NO_VIOLATIONS; the intact check runs first;
\* when it reports a violation the contingency check is not run and the result
\* is (False, LimitingFactor(violations, None)); when only the contingency check
\* fails the result is (False, the contingency check's limiting factor).
C8_FeasibilityCheck ==
    lastCheck # NoCheck =>
        LET c == lastCheck
            both == <<"check_violations", "contingency_check">>
        IN  /\ c.out.is_feasible <=>
                   (c.v0 = NO_VIOLATIONS /\ c.cc.v = NO_VIOLATIONS)
            /\ c.out.is_feasible => c.out.limiting_factor = NoneLF /\ c.out.calls = both
            /\ Head(c.out.calls) = "check_violations"
            /\ c.v0 # NO_VIOLATIONS =>
                   /\ c.out.calls = <<"check_violations">>
                   /\ ~c.out.is_feasible
                   /\ c.out.limiting_factor = LimitingFactor(c.v0, None)
            /\ (c.v0 = NO_VIOLATIONS /\ c.cc.v # NO_VIOLATIONS) =>
                   /\ c.out.calls = both
                   /\ ~c.out.is_feasible
                   /\ c.out.limiting_factor = c.cc
            /\ limiting_factor = c.out.limiting_factor

C8_Witness ==
    /\ lastCheck # NoCheck
    /\ lastCheck.v0 = NO_VIOLATIONS
    /\ lastCheck.cc = LimitingFactor("VOLTAGE", "t1")
    /\ Len(probeLog) >= 2

\* The temporary element of the subsystem exists in the working case.
TempElementExists == TempKey(temp_subsystem) \in DOMAIN net[temp_subsystem.kind]

\* C4: called while inactive (before __enter__ or after __exit__) the subsystem
\* raises RuntimeError and changes nothing in the working case; called while
\* active it overwrites the power of the temporary element with the value given.
C4_CallNeedsActiveScope ==
    lastOp = "__call__" =>
        IF lastCall.wasActive
        THEN /\ ~lastCall.raised
             /\ TempElementExists
             /\ Injection(net, temp_subsystem) = lastCall.mva
             /\ net = TempCallNet(TempEnterNet(netBefore, temp_subsystem),
                                  temp_subsystem, lastCall.mva)
        ELSE /\ lastCall.raised
             /\ net = netBefore
             /\ ~TempElementExists

C4_Witness ==
    /\ lastOp = "__call__" /\ ~lastCall.wasActive /\ lastCall.raised
    /\ net # EmptyNet

ScenBetweenElements == pcS \in {"test", "done", "raised"}

\* C6: the disabling scope puts the branch back in service on every path out of
\* it (normal end, exception, the disabling call itself failing): outside of a
\* scope every branch whose scope was entered is enabled, and every branch that
\* was enabled in the base case is enabled.
C6_BranchEnabledAfterScope ==
    ScenBetweenElements =>
        \A e \in Range(BranchIds) :
            /\ e \in scoped => branch_status[e] = 1
            /\ status0[e] = 1 => branch_status[e] = 1

C6_Witness ==
    /\ pcS = "raised"
    /\ "b1" \in scoped /\ disable_outcome["b1"] = "ok"
    /\ "b2" \in scoped /\ disable_outcome["b2"] = "raises"
    /\ branch_status["b1"] = 1 /\ branch_status["b2"] = 1

\* An element is not critical when it is enabled, can be disabled, and its
\* outage alone gives no violations.
NotCritical(e) ==
    /\ status0[e] = 1
    /\ disable_outcome[e] = "ok"
    /\ solo_violations[e] = NO_VIOLATIONS

\* C7 as stated: the scenario holds exactly the elements that are enabled, can
\* be disabled and whose outage alone gives NO_VIOLATIONS, in collection order.
C7_ScenarioIsTheNotCritical ==
    pcS = "done" =>
        /\ not_critical_branches = SelectSeq(BranchIds, NotCritical)
        /\ not_critical_trafos = SelectSeq(TrafoIds, NotCritical)

\* The sum of the power of all records of the list at the bus.
RECURSIVE SumAtBus(_, _)
SumAtBus(list, bus_number) ==
    IF list = <<>> THEN Zero
    ELSE LET rest == SumAtBus(Tail(list), bus_number)
         IN  IF Head(list).number = bus_number THEN CxAdd(Head(list).mva, rest) ELSE rest

LastCallExact ==
    /\ actual_load_mva = SumAtBus(loads, lastBus)
    /\ actual_gen_mva = SumAtBus(machines, lastBus)

\* C10 as stated: over sorted lists and a non-decreasing sequence of visited bus
\* numbers, each call returns the sum of the power of the records of the bus.
C10_ExactSumNonDecreasing == (lastBus # 0 /\ nonDecreasing) => LastCallExact

\* C10 amended: the same for a strictly increasing sequence of visited bus
\* numbers (no bus number is visited twice).
C10_ExactSumIncreasing == (lastBus # 0 /\ increasing) => LastCallExact

C10_Witness ==
    /\ increasing
    /\ lastBus = MaxBus
    /\ Len(loads) = 2 /\ loads[1].number = lastBus /\ loads[2].number = lastBus
    /\ actual_load_mva = CxAdd(loads[1].mva, loads[2].mva)
    /\ loads[1].mva # loads[2].mva
    /\ actual_gen_mva # Zero

\* A `with temp_subsystem:` block is being executed.
InsideWith == pc \in {"load_search", "gen_search"}

NoTemporaryElement(n) ==
    \A kind \in {"load", "machine"} :
        \A key \in DOMAIN n[kind] : key[2] # TEMP_LOAD_ID

\* C5: every temporary-element scope entered is exited with the element
\* deleted, on every path: outside of a `with` block the subsystem is inactive,
\* no temporary element exists, and the loads and machines of the working case
\* are those from before the scope was entered, whether the block ended
\* normally, with no power ever set, or by an error raised by a probe.
C5_ScopeLeavesNoElement ==
    ~InsideWith =>
        /\ ~temp_subsystem.active
        /\ NoTemporaryElement(net)
        /\ lastOp \in {None, "__exit__", "__exit__ on error"}
        /\ lastOp # None => net = netBefore /\ net = case_net

C5_Witness ==
    /\ pc = "raised"
    /\ lastOp = "__exit__ on error"
    /\ setLog = <<>>
    /\ temp_subsystem.kind = "load"
    /\ case_net # EmptyNet
    /\ Len(headrooms) = 1

\* C9: when the base case has violations the constructor raises before the
\* contingency scenario is built, before a cursor is created and before any bus
\* is probed: no element is disabled, no temporary element is created, no
\* feasibility probe is made and no BusHeadroom record is produced or returned.
C9_BaseCaseViolationsAreFatal ==
    base_violations # NO_VIOLATIONS =>
        /\ pc \in {"start", "check_base", "raised"}
        /\ pcS = "idle" /\ scoped = {} /\ checked = {}
        /\ contingency_scenario = ContingencyScenario(<<>>, <<>>)
        /\ opened <= 2
        /\ load_pos = 0 /\ machine_pos = 0 /\ lastBus = 0
        /\ lastOp = None /\ temp_subsystem = NoSubsystem
        /\ NoTemporaryElement(net)
        /\ probeLog = <<>> /\ setLog = <<>> /\ pcB = "idle"
        /\ bus_idx = 0 /\ headrooms = <<>>

C9_Witness ==
    /\ pc = "raised"
    /\ base_violations = "VOLTAGE"
    /\ use_full_newton_raphson
    /\ ~supplied_scenario.given
    /\ case_net # EmptyNet

\* The search of the example: upper limit 50 MW, tolerance 5 MW, 10 iterations,
\* feasible below 30 MW injected and infeasible from 30 MW on.
ExampleCase ==
    /\ U.re = Mw(50)
    /\ solver_tolerance_p_mw = Mw(5)
    /\ max_iterations = 10
    /\ oracle = ThresholdOracle(Mw(30))

\* C11: in the example the search returns a headroom whose active power is
\* between 25 and 30 MW and feasible, after at most 10 feasibility probes; at
\* no time has it made more than 10 probes.
C11_ExampleSearch ==
    ExampleCase =>
        /\ Len(probeLog) <= 10
        /\ Returned =>
               /\ Mw(25) <= result.mva.re /\ result.mva.re <= Mw(30)
               /\ result.mva.re < oracle.T

\* The example's search returns 28.125 MW after five probes.
C11_Witness ==
    /\ ExampleCase /\ Returned
    /\ 8 * result.mva.re = Mw(225)
    /\ Len(probeLog) = 5
    /\ U.im # 0

\* C12: for a deterministic monotone network, the search run again with the
\* value returned by the search before it as the upper limit returns that same
\* value (active and reactive power).
C12_SearchAgainReturnsSame ==
    (previous.given /\ Returned) => result.mva = previous.mva

\* The first search returned a midpoint, short of the threshold.
C12_Witness ==
    /\ previous.given /\ Returned
    /\ previous.mva.re % Scale # 0
    /\ previous.mva.im # 0
    /\ oracle.T - previous.mva.re > 1

\* The buses of the sweep that are in the caller's selection, in sweep order.
IsSelected(bus_number) ==
    selected_buses_ids.given => bus_number \in selected_buses_ids.ids

InScopeBuses == SelectSeq(CaseBuses, IsSelected)

RecordBuses == [k \in 1..Len(headrooms) |-> headrooms[k].bus]

\* bus_headroom is running for a bus.
AnalysingBus ==
    pc \in {"bus_headroom", "load_enter", "load_search", "gen_decide", "gen_enter",
            "gen_search", "record"}

\* C13: the records produced are, at any time, those of the first selected
\* buses in sweep order, one per bus; the bus being analysed is the selected bus
\* that follows them (the buses before it are complete, none after it has been
\* started); what buses_headroom returns is one record per selected bus of the
\* sweep, every bus when there is no selection.
C13_OneRecordPerSelectedBus ==
    /\ Len(RecordBuses) <= Len(InScopeBuses)
    /\ RecordBuses = SubSeq(InScopeBuses, 1, Len(RecordBuses))
    /\ AnalysingBus =>
           /\ Len(RecordBuses) < Len(InScopeBuses)
           /\ CurrentBus = InScopeBuses[Len(RecordBuses) + 1]
           /\ lastBus \in {CurrentBus} \cup Range(RecordBuses) \cup {0}
    /\ pc = "returned" =>
           /\ RecordBuses = InScopeBuses
           /\ ~selected_buses_ids.given => RecordBuses = CaseBuses

C13_Witness ==
    /\ pc = "returned"
    /\ selected_buses_ids.given
    /\ RecordBuses = <<2>>
    /\ headrooms[1].actual_gen_mva # Zero

\* The selection names a bus number that no bus of the case has.
InvalidSelection ==
    /\ selected_buses_ids.given
    /\ \E n \in selected_buses_ids.ids : n \notin Range(CaseBuses)

\* C14 as stated: with an invalid bus selection the call fails; it never
\* returns a result.
C14_InvalidSelectionFails == InvalidSelection => pc # "returned"

\* The search is over: it returned, or an exception left it.
SearchEnded == pcB \in {"done", "raised"}

\* The bound on the probes of a search, and when it stops.
ProbeBound ==
    /\ Len(probeLog) <= max_iterations
    /\ i <= LoopRange(max_iterations)
    /\ pcB = "start" => probeLog = <<>>
    /\ pcB = "loop" =>
           /\ Len(probeLog) = i + 1
           /\ probeLog[1].mva = U
           /\ i > 0 => ~Converged(lower_limit_mva, upper_limit_mva, solver_tolerance_p_mw)
    /\ Returned =>
           /\ Len(probeLog) = i + 1
           /\ probeLog[1].mva = U
           /\ i > 0 /\ i < LoopRange(max_iterations) =>
                  Converged(lower_limit_mva, upper_limit_mva, solver_tolerance_p_mw)
           /\ i = 0 => UpperFeasible \/ max_iterations = 1
           /\ max_iterations = 1 /\ UpperInfeasible =>
                  result.mva = Zero /\ Len(probeLog) = 1

\* C15: every search ends, and it makes at most max_iterations probes: one at
\* U and at most max_iterations - 1 midpoints; it goes on after a midpoint only
\* while upper.real - lower.real >= tolerance, and returns before the cap only
\* when U is feasible or upper.real - lower.real < tolerance; with
\* max_iterations = 1 and U infeasible it returns 0 after the single probe.
C15_SearchEndsWithinCap == []ProbeBound /\ <>SearchEnded

C15_Witness ==
    /\ Returned
    /\ max_iterations = MaxIter
    /\ Len(probeLog) = max_iterations
    /\ ~Converged(lower_limit_mva, upper_limit_mva, solver_tolerance_p_mw)

ProbedInfeasible(mva) ==
    \E k \in 1..Len(probeLog) : probeLog[k].mva = mva /\ ~probeLog[k].is_feasible

ProbedFeasible(mva) ==
    \E k \in 1..Len(probeLog) : probeLog[k].mva = mva /\ probeLog[k].is_feasible

\* C16: at every point of a search 0 <= lower.real <= upper.real <= U.real;
\* once U has been probed infeasible, upper is a value whose probe was
\* infeasible; lower is 0, never probed in this search, or a value whose probe
\* was feasible; the value returned is U or lower, was never probed infeasible
\* and does not exceed U.
C16_LoopInvariant ==
    /\ 0 <= lower_limit_mva.re
    /\ lower_limit_mva.re <= upper_limit_mva.re
    /\ upper_limit_mva.re <= U.re
    /\ UpperInfeasible => ProbedInfeasible(upper_limit_mva)
    /\ IF lower_limit_mva = Zero
       THEN \A k \in 1..Len(probeLog) : probeLog[k].mva # Zero
       ELSE ProbedFeasible(lower_limit_mva)
    /\ Returned =>
           /\ result.mva = IF UpperFeasible THEN U ELSE lower_limit_mva
           /\ ~ProbedInfeasible(result.mva)
           /\ result.mva.re <= U.re

C16_Witness ==
    /\ Returned /\ UpperInfeasible
    /\ oracle.kind = "free"
    /\ lower_limit_mva # Zero
    /\ upper_limit_mva # U
    /\ Len(probeLog) = MaxIter

\* The temporary elements of a working case, loads and machines.
TempElements(n) ==
    UNION {{<<kind, key>> : key \in {x \in DOMAIN n[kind] : x[2] = TEMP_LOAD_ID}} :
               kind \in {"load", "machine"}}

\* C17: at most one temporary element exists at any time: the load of the bus
\* analysed while its load headroom is searched, the machine of that bus while
\* its generation headroom is searched, the load being gone before the machine
\* is created; none between two buses and none when buses_headroom returns or
\* fails; a subsystem is active only inside its own `with` block.
C17_OneTemporaryElementAtMost ==
    /\ Cardinality(TempElements(net)) <= 1
    /\ temp_subsystem.active => InsideWith
    /\ pc = "load_search" =>
           /\ TempElements(net) = {<<"load", <<CurrentBus, TEMP_LOAD_ID>>>>}
           /\ temp_subsystem = TempEnter(TemporaryBusSubsystem("load", CurrentBus))
    /\ pc = "gen_search" =>
           /\ TempElements(net) = {<<"machine", <<CurrentBus, TEMP_LOAD_ID>>>>}
           /\ temp_subsystem = TempEnter(TemporaryBusSubsystem("machine", CurrentBus))
    /\ ~InsideWith => TempElements(net) = {}

C17_Witness ==
    /\ pc = "gen_search"
    /\ TempElements(net) = {<<"machine", <<2, TEMP_LOAD_ID>>>>}
    /\ Len(probeLog) = 2
    /\ Len(headrooms) = 1

\* The bus analysed has generation and its load headroom is not zero.
GenWanted == actual_gen_mva # Zero /\ load_available_mva # Zero

\* C18: the generation headroom of a bus is searched exactly when its actual
\* generation and its load headroom are both non-zero; otherwise no temporary
\* machine is created, the last search made is the one for the load, and the
\* record reports a generation headroom of 0 with no limiting factor.
C18_GenerationSearchedWhenWanted ==
    /\ pc \in {"gen_enter", "gen_search"} => GenWanted
    /\ (\E e \in TempElements(net) : e[1] = "machine") => GenWanted
    /\ pc = "record" =>
           IF GenWanted
           THEN /\ temp_subsystem = TemporaryBusSubsystem("machine", CurrentBus)
                /\ U = upper_gen_limit_mva
                /\ gen_available_mva = result.mva
                /\ gen_lf = result.limiting_factor
           ELSE /\ temp_subsystem = TemporaryBusSubsystem("load", CurrentBus)
                /\ U = upper_load_limit_mva
                /\ load_available_mva = result.mva
                /\ gen_available_mva = Zero
                /\ gen_lf = NoneLF
    /\ \A k \in 1..Len(headrooms) :
           (headrooms[k].actual_gen_mva = Zero \/ headrooms[k].load_avail_mva = Zero) =>
               headrooms[k].gen_avail_mva = Zero /\ headrooms[k].gen_lf = NoneLF

\* A bus with generation whose load headroom is 0: no search for generation.
C18_Witness ==
    /\ pc = "returned"
    /\ \E k \in 1..Len(headrooms) :
           /\ headrooms[k].actual_gen_mva # Zero
           /\ headrooms[k].load_avail_mva = Zero
           /\ headrooms[k].load_lf # NoneLF

\* The constructor is past handle_empty_contingency_scenario.
ScenarioFixed == pc \in {"cursors", "constructed", "returned"} \/ AnalysingBus

\* The scenario of the run: the one given, or else the one built.
ScenarioOfRun ==
    IF supplied_scenario.given THEN supplied_scenario.cs
    ELSE ContingencyScenario(not_critical_branches, not_critical_trafos)

\* The wf.open_case calls of fdns_is_applicable.
StartupOpens == Cardinality({k \in 1..Len(solver_log) : solver_log[k] = "open_case"})

\* C19: the scenario is given or built once, after the base-case check and
\* before the first bus: a given scenario is used as it is, with no build and
\* no reload of the case; otherwise get_contingency_scenario is called exactly
\* once and the case is opened again right after it; from then on the scenario
\* stays the same and every feasibility probe is made with it.
C19_ScenarioFixedBeforeSweep ==
    /\ builds <= 1
    /\ pc \in {"start", "check_base", "handle_scenario"} =>
           builds = 0 /\ pcS = "idle" /\ lastCheck = NoCheck /\ bus_idx = 0
    /\ pc = "building" => builds = 1 /\ opened = StartupOpens /\ bus_idx = 0
    /\ supplied_scenario.given =>
           builds = 0 /\ pcS = "idle" /\ scoped = {} /\ opened = StartupOpens
    /\ ScenarioFixed =>
           /\ contingency_scenario = ScenarioOfRun
           /\ ~supplied_scenario.given =>
                  builds = 1 /\ pcS = "done" /\ opened = StartupOpens + 1
    /\ (pc = "cursors" /\ ~supplied_scenario.given) =>
           net = case_net /\ branch_status = status0
    /\ lastCheck # NoCheck =>
           /\ lastCheck.contingency_scenario = ScenarioOfRun
           /\ contingency_scenario = ScenarioOfRun

C19_Witness ==
    /\ pc = "returned"
    /\ ~supplied_scenario.given
    /\ builds = 1
    /\ lastCheck # NoCheck
    /\ Len(headrooms) = 2
    /\ opened = 3

\* The calls fdns_is_applicable makes, for a case the decoupled solver solves
\* and for one it does not.
StartupCalls ==
    IF fdns_converges THEN <<"open_case", "fdns">>
    ELSE <<"open_case", "fdns", "open_case", "full">>

\* C20: at startup the case is opened and solved with the decoupled solver,
\* and only when that does not converge it is opened again and solved once with
\* the full method; the choice, full method iff the decoupled attempt failed,
\* is made before the base-case check and every check of the run (base case,
\* scenario building, every probe) is given that same choice; the run is never
\* ended by the startup: a run that fails has made the base-case check.
C20_SolverChosenOnceAtStartup ==
    /\ pc = "start" => solver_log = <<>> /\ passed = {} /\ opened = 0
    /\ pc # "start" =>
           /\ solver_log = StartupCalls
           /\ use_full_newton_raphson = ~fdns_converges
           /\ passed \subseteq {~fdns_converges}
    /\ pc \notin {"start", "check_base"} => passed = {~fdns_converges}
    /\ lastCheck # NoCheck => lastCheck.use_full_newton_raphson = ~fdns_converges

C20_Witness ==
    /\ pc = "returned"
    /\ ~fdns_converges
    /\ passed = {TRUE}
    /\ builds = 1
    /\ Len(headrooms) = 2

\* The records a step consumes: those from the old position up to the new one,
\* the last record included when the list runs out at this step.
ConsumedBy(list, pos, available, pos2, available2) ==
    IF ~available THEN {}
    ELSE {k \in 1..Len(list) : pos <= k /\ (k < pos2 \/ (k = pos2 /\ ~available2))}

\* The sum of the power of the records of a set of places that are at the bus.
RECURSIVE SumOfPlaces(_, _, _)
SumOfPlaces(list, places, bus_number) ==
    IF places = {} THEN Zero
    ELSE LET k == CHOOSE x \in places : TRUE
             rest == SumOfPlaces(list, places \ {k}, bus_number)
         IN  IF list[k].number = bus_number THEN CxAdd(list[k].mva, rest) ELSE rest

\* One cursor over a step: it does not move back, an exhausted list stays
\* exhausted, the value returned is the sum of the records of the bus consumed
\* by this step, and a call for a bus number not above the highest one called
\* before returns 0 and leaves the cursor where it is.
CursorForward(list, pos, available, pos2, available2, returned, bus2) ==
    /\ pos2 >= pos
    /\ available2 => available
    /\ pos2 > pos => available
    /\ returned = SumOfPlaces(list, ConsumedBy(list, pos, available, pos2, available2), bus2)
    /\ bus2 <= highestBus => returned = Zero /\ pos2 = pos /\ available2 = available

\* C21: the load and machine cursors only move forward, each record is consumed
\* by at most one call, and a call of bus_actual_load_mva or bus_actual_gen_mva
\* with a bus number less than or equal to one already processed returns 0 and
\* leaves the cursor unchanged, whatever loads or machines that bus has.
C21_CursorsOnlyMoveForward ==
    [][/\ CursorForward(loads, load_pos, loads_available, load_pos', loads_available',
                        actual_load_mva', lastBus')
       /\ CursorForward(machines, machine_pos, machines_available, machine_pos',
                        machines_available', actual_gen_mva', lastBus')]_vars

\* A call for a bus below one already processed, that has loads and machines.
C21_Witness ==
    /\ lastBus < highestBus
    /\ SumAtBus(loads, lastBus) # Zero
    /\ SumAtBus(machines, lastBus) # Zero
    /\ actual_load_mva = Zero
    /\ actual_gen_mva = Zero
    /\ loads_available

====
